---- MODULE Spec2Model ----
(***************************************************************************)
(* A model of two leaf utilities of the Caffe-Conv3D tree:                 *)
(*   - the HDF5 data layer as exercised by test_hdf5data_layer.cpp (the    *)
(*     batched cyclic reader: SetUp, then one Forward per batch), and      *)
(*   - the fillers of include/caffe/filler.hpp (GetFiller and the Fill     *)
(*     method of every Filler subclass).                                   *)
(* Real numbers are exact rationals <<num, den>> with den > 0; a quantity  *)
(* that is a square root is carried by its square.                         *)
(***************************************************************************)
EXTENDS Integers, Sequences, FiniteSets, TLC

VARIABLES
  \* ---- batched cyclic reader (HDF5DataLayer) ----
  state,        \* "Idle" before SetUp, "Loaded" after
  file_rows,    \* the source list: row count of each file, in list order
  batch_size,   \* hdf5_data_param.batch_size
  file_index,   \* 0-based index of the active file
  row_cursor,   \* 0-based row cursor inside the active file
  top,          \* the output blobs: one entry per delivered row and column
  iter,         \* number of Forward calls since the last SetUp
  src,          \* history: where the last Forward copied its rows from
  \* ---- fillers ----
  param,        \* the FillerParameter record
  shape,        \* the blob's shape (sequence of axis extents)
  data,         \* the blob's elements, data[i+1] is cpu_data()[i]
  unit2,        \* square of the unit the elements of data are expressed in
  filler,       \* the Filler object GetFiller returned ("none" before)
  err,          \* outcome of the last call: "none", "ok" or an error kind
  fills,        \* number of Fill calls made
  drawn,        \* history: what the random generator wrote in the last Fill
  rand_vec_     \* GaussianFiller's mask buffer (<<>> while not allocated)

readerVars == <<state, file_rows, batch_size, file_index, row_cursor, top, iter, src>>
fillerVars == <<param, shape, data, unit2, filler, err, fills, drawn, rand_vec_>>
vars == <<state, file_rows, batch_size, file_index, row_cursor, top, iter, src,
          param, shape, data, unit2, filler, err, fills, drawn, rand_vec_>>

(***************************************************************************)
(* Bounds of the model.                                                    *)
(***************************************************************************)
MaxFiles == 2
MaxRows == 10
MaxBatch == 5
MaxIter == 10
MaxDim == 2
MaxCount == 4
DrawDen == 1
MaxSparse == 1
MaxS == 8
MaxK == 2
MaxFills == 2

\* The highest rank any filler tells apart (BilinearFiller: 4, 5, else).
MaxAxes == 5

(***************************************************************************)
(* Generic helpers.                                                        *)
(***************************************************************************)
RECURSIVE SeqSum(_)
SeqSum(s) == IF s = <<>> THEN 0 ELSE Head(s) + SeqSum(Tail(s))

RECURSIVE SeqProd(_)
SeqProd(s) == IF s = <<>> THEN 1 ELSE Head(s) * SeqProd(Tail(s))

Abs(x) == IF x < 0 THEN -x ELSE x

RECURSIVE GCD(_, _)
GCD(a, b) == IF b = 0 THEN a ELSE GCD(b, a % b)

(***************************************************************************)
(* Dtype arithmetic, exact: a number is <<num, den>> in lowest terms with  *)
(* den > 0; <<0, 0>> is NaN and <<1, 0>>, <<-1, 0>> are the infinities.    *)
(***************************************************************************)
NaN == <<0, 0>>

Sign(x) == IF x < 0 THEN -1 ELSE IF x > 0 THEN 1 ELSE 0

RNorm(q) ==
  IF q[2] = 0 THEN <<Sign(q[1]), 0>>
  ELSE LET g == GCD(Abs(q[1]), Abs(q[2]))
       IN <<Sign(q[2]) * Sign(q[1]) * (Abs(q[1]) \div g), Abs(q[2]) \div g>>

Q(n) == <<n, 1>>
RAdd(a, b) == RNorm(<<a[1] * b[2] + b[1] * a[2], a[2] * b[2]>>)
RNeg(a) == <<-a[1], a[2]>>
RSub(a, b) == RAdd(a, RNeg(b))
RMul(a, b) == RNorm(<<a[1] * b[1], a[2] * b[2]>>)
RDiv(a, b) == RNorm(<<a[1] * b[2], a[2] * b[1]>>)
RAbs(a) == <<Abs(a[1]), a[2]>>
RFinite(a) == a[2] > 0
RLe(a, b) == RFinite(a) /\ RFinite(b) /\ a[1] * b[2] <= b[1] * a[2]

RECURSIVE RSum(_)
RSum(s) == IF s = <<>> THEN Q(0) ELSE RAdd(Head(s), RSum(Tail(s)))

(***************************************************************************)
(* The test's fixture: TestRead's parameters and the layout of the sample  *)
(* files it reads.                                                         *)
(***************************************************************************)
num_cols == 8
height == 6
width == 5
data_size == num_cols * height * width

\* Rows of file f (0-based).
Rows(f) == file_rows[f + 1]

\* The sample files hold consecutive values in row-major order; the second
\* file's data is offset by the total data size of the first.
FileOffset(f) == SeqSum([g \in 1..f |-> file_rows[g] * data_size])

\* First element of data row r of file f, and the two label columns
\* (labels are 1-indexed, label2 is label + 1).
DataRow(f, r) == FileOffset(f) + r * data_size
LabelRow(f, r) == 1 + r
Label2Row(f, r) == 1 + LabelRow(f, r)

\* What the test expects in the top blobs after Forward number it (0-based).
label_offset(it) == 1 + (IF it % 2 = 0 THEN 0 ELSE batch_size)
label2_offset(it) == 1 + label_offset(it)
data_offset(it) == IF it % 2 = 0 THEN 0 ELSE batch_size * data_size
file_offset_late(it) == IF it % 4 < 3 THEN 0 ELSE 2400
file_offset(it) == IF it % 4 < 2 THEN 0 ELSE 2400

(***************************************************************************)
(* The batched cyclic reader.                                              *)
(***************************************************************************)
FileLists == UNION {[1..n -> 1..MaxRows] : n \in 1..MaxFiles}

\* What a read of a row outside the active file may deliver.
Garbage == {-1, 0}

NoSrc == [file |-> 0, start |-> 0, wrapped |-> FALSE]
NoTop == [data |-> <<>>, label |-> <<>>, label2 |-> <<>>]

\* The batch does not fit between the cursor and the end of the active file.
NeedsWrapOff(rc, bs, rows) == rc + bs >= rows
NeedsWrap(rc, bs, rows) == rc + bs > rows

NextFile(fi, n) == (fi + 1) % n

\* Rows [rc, rc + batch_size) of file fi, every requested column, in row
\* order; g stands for whatever lies beyond the end of the file.
CopyRows(fi, rc, g) ==
  [data   |-> [i \in 1..batch_size |->
                 IF rc + i - 1 < Rows(fi) THEN DataRow(fi, rc + i - 1) ELSE g],
   label  |-> [i \in 1..batch_size |->
                 IF rc + i - 1 < Rows(fi) THEN LabelRow(fi, rc + i - 1) ELSE g],
   label2 |-> [i \in 1..batch_size |->
                 IF rc + i - 1 < Rows(fi) THEN Label2Row(fi, rc + i - 1) ELSE g]]

\* Element idx (0-based) of the data blob: rows are contiguous runs of
\* data_size consecutive values.
TopData(idx) == top.data[(idx \div data_size) + 1] + (idx % data_size)

FillerIdle ==
  /\ param = [type |-> "none"]
  /\ shape = <<>>
  /\ data = <<>>
  /\ unit2 = <<1, 1>>
  /\ filler = "none"
  /\ err = "none"
  /\ fills = 0
  /\ drawn = <<>>
  /\ rand_vec_ = <<>>

InitReader ==
  /\ state = "Idle"
  /\ file_rows \in FileLists
  /\ batch_size \in 1..MaxBatch
  /\ file_index = 0
  /\ row_cursor = 0
  /\ top = NoTop
  /\ iter = 0
  /\ src = NoSrc
  /\ FillerIdle

SetUp ==
  /\ state' = "Loaded"
  /\ file_index' = 0
  /\ row_cursor' = 0
  /\ top' = NoTop
  /\ iter' = 0
  /\ src' = NoSrc
  /\ UNCHANGED <<file_rows, batch_size>>
  /\ UNCHANGED fillerVars

\* One batch request: wrap if the batch does not fit, copy, advance.
Serve ==
  LET wrap == NeedsWrap(row_cursor, batch_size, Rows(file_index))
      fi == IF wrap THEN NextFile(file_index, Len(file_rows)) ELSE file_index
      rc == IF wrap THEN 0 ELSE row_cursor
  IN /\ file_index' = fi
     /\ \E g \in Garbage : top' = CopyRows(fi, rc, g)
     /\ row_cursor' = rc + batch_size
     /\ src' = [file |-> fi, start |-> rc, wrapped |-> wrap]

Forward ==
  /\ state = "Loaded"
  /\ iter < MaxIter
  /\ Serve
  /\ iter' = iter + 1
  /\ UNCHANGED <<state, file_rows, batch_size>>
  /\ UNCHANGED fillerVars

NextReader == SetUp \/ Forward

SpecReader == InitReader /\ [][NextReader]_vars

\* The reader run without end: past MaxIter requests the same batch request
\* goes on with the request counter held at MaxIter. The caller sets the
\* layer up and then asks for a batch on every training step.
ForwardOn ==
  /\ state = "Loaded"
  /\ iter = MaxIter
  /\ Serve
  /\ UNCHANGED <<iter, state, file_rows, batch_size>>
  /\ UNCHANGED fillerVars

NextReaderLive == SetUp \/ Forward \/ ForwardOn

SpecReaderLive ==
  /\ InitReader
  /\ [][NextReaderLive]_vars
  /\ WF_vars(state = "Idle" /\ SetUp)
  /\ WF_vars(Forward \/ ForwardOn)

(***************************************************************************)
(* Claims about the batched cyclic reader (checked under SpecReader).      *)
(***************************************************************************)

\* The source list holds two files of R rows each and batch_size divides R.
TwoEqualFiles ==
  /\ Len(file_rows) = 2
  /\ file_rows[1] = file_rows[2]
  /\ file_rows[1] % batch_size = 0

\* C1: with two files of R rows each and batch_size B dividing R, the k-th
\* Forward after SetUp (k = iter - 1) delivers rows [(k mod (R/B))*B,
\* (k mod (R/B))*B + B) of file ((k div (R/B)) mod 2), in row order, in every
\* column; for R = 10, B = 5 the top blobs hold what TestRead expects.
C1_TwoFileCycle ==
  (state = "Loaded" /\ iter > 0 /\ TwoEqualFiles) =>
    LET R == file_rows[1]
        B == batch_size
        q == R \div B
        k == iter - 1
        f == (k \div q) % 2
        s == (k % q) * B
    IN /\ src.file = f
       /\ src.start = s
       /\ \A i \in 1..B :
            /\ top.data[i] = DataRow(f, s + i - 1)
            /\ top.label[i] = LabelRow(f, s + i - 1)
            /\ top.label2[i] = Label2Row(f, s + i - 1)
       /\ (R = 10 /\ B = 5) =>
            /\ \A i \in 0..(B - 1) :
                 /\ top.label[i + 1] = label_offset(k) + i
                 /\ top.label2[i + 1] = label2_offset(k) + i
            /\ \A idx \in 0..(B * data_size - 1) :
                 TopData(idx) = file_offset(k) + data_offset(k) + idx

\* C1 witness: the fourth request of the test's configuration has been
\* served (rows [5,10) of the second file).
C1_Witness ==
  /\ state = "Loaded" /\ TwoEqualFiles
  /\ file_rows[1] = 10 /\ batch_size = 5
  /\ iter = 4 /\ src.file = 1 /\ src.start = 5

\* C2 (as claimed): every row a Forward copies lies inside the active file,
\* whatever the file list and batch_size.
C2_RowsInsideFile ==
  (state = "Loaded" /\ iter > 0) =>
    /\ src.file = file_index
    /\ src.start + batch_size <= Rows(file_index)

\* C3: within one pass over a file with R rows and batch_size B <= R the
\* batches are the windows [0,B), [B,2B), ..., [(R div B - 1)*B, (R div B)*B)
\* in that order, each once; rows with index >= (R div B)*B are never
\* delivered, and a batch never mixes rows of two files.
C3_PassWindows ==
  [][ (state = "Loaded" /\ iter' = iter + 1 /\ batch_size <= Rows(src'.file)) =>
        LET f == src'.file
            B == batch_size
            R == Rows(f)
        IN /\ src'.start % B = 0
           /\ src'.start + B <= (R \div B) * B
           /\ \A i \in 1..B :
                /\ top'.data[i] = DataRow(f, src'.start + i - 1)
                /\ top'.label[i] = LabelRow(f, src'.start + i - 1)
                /\ top'.label2[i] = Label2Row(f, src'.start + i - 1)
           /\ (iter = 0 \/ src'.wrapped) => src'.start = 0
           /\ (iter > 0 /\ ~src'.wrapped) =>
                (src'.file = src.file /\ src'.start = src.start + B)
           /\ (iter > 0 /\ src'.wrapped /\ B <= Rows(src.file)) =>
                src.start = ((Rows(src.file) \div B) - 1) * B
    ]_vars

\* C3 witness: a pass over a file whose row count batch_size does not divide
\* has ended with a wrap, leaving the partial window undelivered.
C3_Witness ==
  /\ state = "Loaded" /\ iter >= 3
  /\ Len(file_rows) = 1
  /\ batch_size < Rows(0)
  /\ Rows(0) % batch_size # 0
  /\ src.wrapped /\ src.start = 0

(***************************************************************************)
(* The blob: shape accessors used by the fillers.                          *)
(***************************************************************************)
count(sh) == SeqProd(sh)
num_axes(sh) == Len(sh)

\* shape(index) aborts unless index names an axis.
HasAxis(sh, index) == index < Len(sh)
shape_at(sh, index) == sh[index + 1]

\* num(), channels(), height(), width(): the legacy accessors abort on more
\* than 4 axes and read a missing trailing axis as 1.
LegacyOk(sh) == Len(sh) <= 4
LegacyShape(sh, index) == IF index >= Len(sh) THEN 1 ELSE sh[index + 1]

(***************************************************************************)
(* FillerParameter.                                                        *)
(***************************************************************************)
FillerParam(t, v, mn, mx, me, sd, sp, vn, sc) ==
  [type |-> t, value |-> v, min |-> mn, max |-> mx, mean |-> me, std |-> sd,
   sparse |-> sp, variance_norm |-> vn, scale |-> sc]

VarianceNorms == {"FAN_IN", "FAN_OUT", "AVERAGE"}
Sparsities == (-2)..MaxSparse

\* The parameter records tried: per type, the fields its Fill reads vary and
\* the others keep their defaults.
Params ==
  {FillerParam("constant", 3, 0, 1, 0, 1, sp, "FAN_IN", 1) : sp \in Sparsities}
  \cup {FillerParam("uniform", 0, -1, 2, 0, 1, sp, "FAN_IN", 1) : sp \in Sparsities}
  \cup {FillerParam("gaussian", 0, 0, 1, 1, 2, sp, "FAN_IN", 1) : sp \in Sparsities}
  \cup {FillerParam("positive_unitball", 0, 0, 1, 0, 1, sp, "FAN_IN", 1) :
          sp \in Sparsities}
  \cup {FillerParam("xavier", 0, 0, 1, 0, 1, sp, vn, 1) :
          sp \in Sparsities, vn \in VarianceNorms}
  \cup {FillerParam("msra", 0, 0, 1, 0, 1, sp, vn, sc) :
          sp \in {-1, 0}, vn \in VarianceNorms, sc \in {1, 2}}
  \cup {FillerParam("bilinear", 0, 0, 1, 0, 1, sp, "FAN_IN", 1) : sp \in Sparsities}
  \cup {FillerParam(t, 0, 0, 1, 0, 1, -1, "FAN_IN", 1) : t \in {"gabor", "foo", ""}}

\* The blob shapes tried: up to MaxAxes axes of extent 0..MaxDim holding at
\* most MaxCount elements.
Shapes ==
  {sh \in UNION {[1..n -> 0..MaxDim] : n \in 0..MaxAxes} : count(sh) <= MaxCount}

\* What the blob holds before Fill.
OldValue == Q(9)

(***************************************************************************)
(* The random number generator of math_functions: the sequences it writes.  *)
(***************************************************************************)
\* n draws from [a, b], on a grid of DrawDen steps between the two ends.
RngUniform(n, a, b) ==
  [1..n -> {RAdd(a, RMul(RSub(b, a), RNorm(<<k, DrawDen>>))) : k \in 0..DrawDen}]

\* n draws from Normal(mu, sigma), a few standard deviations around mu.
Normals == {-1, 0, 1}
RngGaussian(n, mu, sigma) ==
  [1..n -> {RAdd(mu, RMul(sigma, Q(z))) : z \in Normals}]

\* n Bernoulli(p) draws (p is checked to lie in [0, 1] by the generator).
RngBernoulli(n, p) ==
  [1..n -> IF p = Q(0) THEN {0} ELSE IF p = Q(1) THEN {1} ELSE {0, 1}]

(***************************************************************************)
(* The outcome of one Fill call: the error kind ("ok" when it returns),    *)
(* the blob's elements and their unit afterwards, what the generator drew  *)
(* and the mask buffer.                                                    *)
(***************************************************************************)
Outcome(e, d, u2, dr, rv) ==
  [err |-> e, data |-> d, unit2 |-> u2, drawn |-> dr, rand_vec_ |-> rv]

\* CHECK_EQ(sparse, -1) << "Sparsity not supported by this Filler."
SparseCheckLoose(p) == IF p.sparse <= -1 THEN "ok" ELSE "UnsupportedSparsity"
SparseCheck(p) == IF p.sparse = -1 THEN "ok" ELSE "UnsupportedSparsity"

\* ConstantFiller::Fill
ConstantFill(p, sh, d, u2, rv) ==
  IF count(sh) = 0 THEN {Outcome("EmptyBuffer", d, u2, <<>>, rv)}
  ELSE {Outcome(SparseCheck(p), [i \in 1..count(sh) |-> Q(p.value)], Q(1), <<>>, rv)}

\* UniformFiller::Fill
UniformFill(p, sh, d, u2, rv) ==
  IF count(sh) = 0 THEN {Outcome("EmptyBuffer", d, u2, <<>>, rv)}
  ELSE {Outcome(SparseCheck(p), r, Q(1), r, rv) :
          r \in RngUniform(count(sh), Q(p.min), Q(p.max))}

\* Dtype(sparse) / Dtype(num_outputs), with num_outputs = blob->shape(0).
NonZeroProbability(p, sh) == RDiv(Q(p.sparse), Q(shape_at(sh, 0)))

\* GaussianFiller::Fill
GaussianFill(p, sh, d, u2, rv) ==
  IF count(sh) = 0 THEN {Outcome("EmptyBuffer", d, u2, <<>>, rv)}
  ELSE UNION {
    IF p.sparse < -1 THEN {Outcome("InvalidSparsity", r, Q(1), r, rv)}
    ELSE IF p.sparse < 0 THEN {Outcome("ok", r, Q(1), r, rv)}
    ELSE IF ~HasAxis(sh, 0) THEN {Outcome("UnsupportedRank", r, Q(1), r, rv)}
    ELSE LET num_outputs == shape_at(sh, 0)
             non_zero_probability == NonZeroProbability(p, sh)
         IN IF ~(RLe(Q(0), non_zero_probability) /\ RLe(non_zero_probability, Q(1)))
            THEN {Outcome("InvalidProbability", r, Q(1), r,
                          [i \in 1..count(sh) |-> 0])}
            ELSE {Outcome("ok", [i \in 1..count(sh) |-> RMul(r[i], Q(mask[i]))],
                          Q(1), r, mask) :
                    mask \in RngBernoulli(count(sh), non_zero_probability)}
    : r \in RngGaussian(count(sh), Q(p.mean), Q(p.std))}

\* The group sums and the normalisation of PositiveUnitballFiller::Fill.
GroupSum(r, i, dim) == RSum([j \in 1..dim |-> r[i * dim + j]])
Normalize(r, n, dim) ==
  [e \in 1..Len(r) |->
     IF (e - 1) \div dim < n THEN RDiv(r[e], GroupSum(r, (e - 1) \div dim, dim))
     ELSE r[e]]

\* PositiveUnitballFiller::Fill. DCHECK(count) is compiled in only in debug
\* builds; count / shape(0) with shape(0) = 0 is undefined: it traps (dim
\* = -1 below) or yields 0. CHECK(dim) fails exactly on an empty blob.
PositiveUnitballFill(p, sh, d, u2, rv) ==
  (IF count(sh) = 0 THEN {Outcome("EmptyBuffer", d, u2, <<>>, rv)} ELSE {})
  \cup UNION {
    IF ~HasAxis(sh, 0) THEN {Outcome("UnsupportedRank", r, Q(1), r, rv)}
    ELSE UNION {
      IF dim = -1 THEN {Outcome("DivideByZero", r, Q(1), r, rv)}
      ELSE IF dim = 0 THEN {Outcome("EmptyBuffer", r, Q(1), r, rv)}
      ELSE IF ~LegacyOk(sh) THEN {Outcome("UnsupportedRank", r, Q(1), r, rv)}
      ELSE {Outcome(SparseCheck(p), Normalize(r, LegacyShape(sh, 0), dim), Q(1), r, rv)}
      : dim \in IF shape_at(sh, 0) = 0 THEN {-1, 0}
                ELSE {count(sh) \div shape_at(sh, 0)}}
    : r \in RngUniform(count(sh), Q(0), Q(1))}

\* n of XavierFiller::Fill and MSRAFiller::Fill, from fan_in and fan_out.
FanNTruncated(p, fan_in, fan_out) ==
  IF p.variance_norm = "AVERAGE" THEN Q((fan_in + fan_out) \div 2)
  ELSE IF p.variance_norm = "FAN_OUT" THEN Q(fan_out)
  ELSE Q(fan_in)
FanN(p, fan_in, fan_out) ==
  IF p.variance_norm = "AVERAGE" THEN RDiv(Q(fan_in + fan_out), Q(2))
  ELSE IF p.variance_norm = "FAN_OUT" THEN Q(fan_out)
  ELSE Q(fan_in)

\* XavierFiller::Fill: the elements are written in units of scale, whose
\* square 3 / n is kept in unit2.
XavierFill(p, sh, d, u2, rv) ==
  IF count(sh) = 0 THEN {Outcome("EmptyBuffer", d, u2, <<>>, rv)}
  ELSE IF ~(HasAxis(sh, 0) /\ HasAxis(sh, 1))
       THEN {Outcome("UnsupportedRank", d, u2, <<>>, rv)}
  ELSE LET fan_in == count(sh) \div shape_at(sh, 0)
           fan_out == count(sh) \div shape_at(sh, 1)
           n == FanN(p, fan_in, fan_out)
           scale2 == RDiv(Q(3), n)
       IN {Outcome(SparseCheck(p), r, scale2, r, rv) :
             r \in RngUniform(count(sh), Q(-1), Q(1))}

\* MSRAFiller::Fill: the elements are written in units of std, whose square
\* scale^2 * 2 / n is kept in unit2.
MSRAFill(p, sh, d, u2, rv) ==
  IF count(sh) = 0 THEN {Outcome("EmptyBuffer", d, u2, <<>>, rv)}
  ELSE IF ~(HasAxis(sh, 0) /\ HasAxis(sh, 1))
       THEN {Outcome("UnsupportedRank", d, u2, <<>>, rv)}
  ELSE LET fan_in == count(sh) \div shape_at(sh, 0)
           fan_out == count(sh) \div shape_at(sh, 1)
           n == FanN(p, fan_in, fan_out)
           std2 == RMul(Q(p.scale * p.scale), RDiv(Q(2), n))
       IN {Outcome(SparseCheck(p), r, std2, r, rv) :
             r \in RngGaussian(count(sh), Q(0), Q(1))}

\* f and c of BilinearFiller::Fill for a spatial extent s.
BilinearF(s) == (s + 1) \div 2
BilinearC(f) == RDiv(Q(2 * f - 1 - (f % 2)), Q(2 * f))

\* 1 - fabs(x / f - c)
BilinearTermSkewed(x, f, c) == RSub(Q(1), RAbs(RSub(RDiv(Q(x + 1), Q(f)), c)))
BilinearTerm(x, f, c) == RSub(Q(1), RAbs(RSub(RDiv(Q(x), Q(f)), c)))

\* BilinearFiller::Fill
BilinearFill(p, sh, d, u2, rv) ==
  IF num_axes(sh) = 4 THEN
    IF LegacyShape(sh, 3) # LegacyShape(sh, 2)
    THEN {Outcome("UnsupportedRank", d, u2, <<>>, rv)}
    ELSE LET w == LegacyShape(sh, 3)
             h == LegacyShape(sh, 2)
             f == BilinearF(w)
             c == BilinearC(f)
         IN {Outcome(SparseCheck(p),
                     [e \in 1..count(sh) |->
                        LET i == e - 1
                            x == i % w
                            y == (i \div w) % h
                        IN RMul(BilinearTerm(x, f, c), BilinearTerm(y, f, c))],
                     IF count(sh) = 0 THEN u2 ELSE Q(1), <<>>, rv)}
  ELSE IF num_axes(sh) = 5 THEN
    IF shape_at(sh, 2) # shape_at(sh, 3) \/ shape_at(sh, 3) # shape_at(sh, 4)
    THEN {Outcome("UnsupportedRank", d, u2, <<>>, rv)}
    ELSE LET f == BilinearF(shape_at(sh, 2))
             c == BilinearC(f)
         IN {Outcome(SparseCheck(p),
                     [e \in 1..count(sh) |->
                        LET i == e - 1
                            x == i % shape_at(sh, 4)
                            y == (i \div shape_at(sh, 4)) % shape_at(sh, 3)
                            z == (i \div (shape_at(sh, 3) * shape_at(sh, 4)))
                                   % shape_at(sh, 2)
                        IN RMul(RMul(BilinearTerm(x, f, c), BilinearTerm(y, f, c)),
                                BilinearTerm(z, f, c))],
                     IF count(sh) = 0 THEN u2 ELSE Q(1), <<>>, rv)}
  ELSE {Outcome("UnsupportedRank", d, u2, <<>>, rv)}

(***************************************************************************)
(* GetFiller: the class of the filler created for a type name, "none" when *)
(* the name is unknown (CHECK(false) aborts).                              *)
(***************************************************************************)
GetFillerNoGabor(type) ==
  IF type = "constant" THEN "ConstantFiller"
  ELSE IF type = "gaussian" THEN "GaussianFiller"
  ELSE IF type = "positive_unitball" THEN "PositiveUnitballFiller"
  ELSE IF type = "uniform" THEN "UniformFiller"
  ELSE IF type = "xavier" THEN "XavierFiller"
  ELSE IF type = "msra" THEN "MSRAFiller"
  ELSE IF type = "bilinear" THEN "BilinearFiller"
  ELSE "none"
GetFiller(type) ==
  IF type = "constant" THEN "ConstantFiller"
  ELSE IF type = "gaussian" THEN "GaussianFiller"
  ELSE IF type = "positive_unitball" THEN "PositiveUnitballFiller"
  ELSE IF type = "uniform" THEN "UniformFiller"
  ELSE IF type = "xavier" THEN "XavierFiller"
  ELSE IF type = "msra" THEN "MSRAFiller"
  ELSE IF type = "bilinear" THEN "BilinearFiller"
  ELSE IF type = "gabor" THEN "GaborFiller"
  ELSE "none"

(***************************************************************************)
(* The filler state machine: GetFiller(param), then filler->Fill(blob).    *)
(***************************************************************************)
ReaderIdle ==
  /\ state = "Idle"
  /\ file_rows = <<1>>
  /\ batch_size = 1
  /\ file_index = 0
  /\ row_cursor = 0
  /\ top = NoTop
  /\ iter = 0
  /\ src = NoSrc

InitFill ==
  /\ ReaderIdle
  /\ param \in Params
  /\ shape \in Shapes
  /\ data = [i \in 1..count(shape) |-> OldValue]
  /\ unit2 = Q(1)
  /\ filler = "none"
  /\ err = "none"
  /\ fills = 0
  /\ drawn = <<>>
  /\ rand_vec_ = <<>>

Create ==
  /\ filler = "none" /\ err = "none"
  /\ filler' = GetFiller(param.type)
  /\ err' = IF GetFiller(param.type) = "none" THEN "UnknownStrategy" ELSE "none"
  /\ UNCHANGED <<param, shape, data, unit2, fills, drawn, rand_vec_>>
  /\ UNCHANGED readerVars

\* One call of filler->Fill(blob) ending in outcome o.
Apply(o) ==
  /\ err' = o.err
  /\ data' = o.data
  /\ unit2' = o.unit2
  /\ drawn' = o.drawn
  /\ rand_vec_' = o.rand_vec_
  /\ fills' = fills + 1
  /\ UNCHANGED <<param, shape, filler>>
  /\ UNCHANGED readerVars

FillConstant ==
  /\ filler = "ConstantFiller" /\ err = "none"
  /\ \E o \in ConstantFill(param, shape, data, unit2, rand_vec_) : Apply(o)

FillUniform ==
  /\ filler = "UniformFiller" /\ err = "none"
  /\ \E o \in UniformFill(param, shape, data, unit2, rand_vec_) : Apply(o)

FillGaussian ==
  /\ filler = "GaussianFiller" /\ err = "none"
  /\ \E o \in GaussianFill(param, shape, data, unit2, rand_vec_) : Apply(o)

FillPositiveUnitball ==
  /\ filler = "PositiveUnitballFiller" /\ err = "none"
  /\ \E o \in PositiveUnitballFill(param, shape, data, unit2, rand_vec_) : Apply(o)

FillXavier ==
  /\ filler = "XavierFiller" /\ err = "none"
  /\ \E o \in XavierFill(param, shape, data, unit2, rand_vec_) : Apply(o)

FillMSRA ==
  /\ filler = "MSRAFiller" /\ err = "none"
  /\ \E o \in MSRAFill(param, shape, data, unit2, rand_vec_) : Apply(o)

FillBilinear ==
  /\ filler = "BilinearFiller" /\ err = "none"
  /\ \E o \in BilinearFill(param, shape, data, unit2, rand_vec_) : Apply(o)

NextFill ==
  \/ Create
  \/ FillConstant
  \/ FillUniform
  \/ FillGaussian
  \/ FillPositiveUnitball
  \/ FillXavier
  \/ FillMSRA
  \/ FillBilinear

SpecFill == InitFill /\ [][NextFill]_vars

(***************************************************************************)
(* The bilinear filler on 4-axis filter blobs (K, C, H, W), filled once    *)
(* or again over its own output, starting from either old content.         *)
(***************************************************************************)
OldValues == {Q(9), Q(-9)}

BilinearShapes ==
  {<<k, c, h, w>> : k \in 0..MaxK, c \in {1, 2}, h \in 0..MaxS, w \in 0..MaxS}

InitBilinear ==
  /\ ReaderIdle
  /\ param \in {FillerParam("bilinear", 0, 0, 1, 0, 1, sp, "FAN_IN", 1) : sp \in {-1, 0}}
  /\ shape \in BilinearShapes
  /\ \E old \in OldValues : data = [i \in 1..count(shape) |-> old]
  /\ unit2 = Q(1)
  /\ filler = "none"
  /\ err = "none"
  /\ fills = 0
  /\ drawn = <<>>
  /\ rand_vec_ = <<>>

FillBilinearAgain ==
  /\ filler = "BilinearFiller" /\ err = "ok"
  /\ fills < MaxFills
  /\ \E o \in BilinearFill(param, shape, data, unit2, rand_vec_) : Apply(o)

NextBilinear == Create \/ FillBilinear \/ FillBilinearAgain

SpecBilinear == InitBilinear /\ [][NextBilinear]_vars

(***************************************************************************)
(* Claims about the fillers (checked under SpecFill unless said).          *)
(***************************************************************************)
SevenNames ==
  {"constant", "gaussian", "positive_unitball", "uniform", "xavier", "msra",
   "bilinear"}

\* The initializer each strategy name stands for.
StrategyClass(t) ==
  CASE t = "constant" -> "ConstantFiller"
    [] t = "gaussian" -> "GaussianFiller"
    [] t = "positive_unitball" -> "PositiveUnitballFiller"
    [] t = "uniform" -> "UniformFiller"
    [] t = "xavier" -> "XavierFiller"
    [] t = "msra" -> "MSRAFiller"
    [] t = "bilinear" -> "BilinearFiller"
    [] t = "gabor" -> "GaborFiller"
    [] OTHER -> "none"

\* The blob still holds what it held before any call.
Untouched == data = [i \in 1..count(shape) |-> OldValue] /\ unit2 = Q(1)

\* C4 (as claimed): every name outside the seven strategies fails with
\* UnknownStrategy and returns no initializer; each of the seven names gets
\* its initializer; the blob is not touched.
C4_SevenNames ==
  (fills = 0 /\ (filler # "none" \/ err # "none")) =>
    /\ Untouched
    /\ IF param.type \in SevenNames
       THEN filler = StrategyClass(param.type) /\ err = "none"
       ELSE filler = "none" /\ err = "UnknownStrategy"

\* C4 (amended): GetFiller knows eight names, the seven and gabor: every
\* other name fails with UnknownStrategy and returns no initializer, each of
\* the eight gets the initializer of its strategy, and the lookup leaves the
\* blob as it was.
C4_EightNames ==
  [][ (filler = "none" /\ err = "none" /\ (filler' # "none" \/ err' # "none")) =>
        /\ data' = data /\ unit2' = unit2
        /\ IF param.type \in SevenNames \cup {"gabor"}
           THEN filler' = StrategyClass(param.type) /\ err' = "none"
           ELSE filler' = "none" /\ err' = "UnknownStrategy"
    ]_vars

\* C4 witness: an unknown name was looked up on a non-empty blob.
C4_Witness ==
  /\ param.type = "foo" /\ err = "UnknownStrategy" /\ filler = "none"
  /\ count(shape) > 0 /\ Untouched

SparsityForbidden ==
  {"constant", "uniform", "positive_unitball", "xavier", "msra", "bilinear"}

ShapeAccepted(t, sh) ==
  /\ count(sh) > 0
  /\ t = "positive_unitball" => Len(sh) \in 1..4
  /\ t \in {"xavier", "msra"} => Len(sh) >= 2
  /\ t = "bilinear" =>
       \/ Len(sh) = 4 /\ sh[3] = sh[4]
       \/ Len(sh) = 5 /\ sh[3] = sh[4] /\ sh[4] = sh[5]

ConfigErrors ==
  {"UnsupportedSparsity", "EmptyBuffer", "UnsupportedRank", "InvalidSparsity"}

\* C6 (as claimed): a Fill that fails with a configuration error leaves
\* every element of the blob as it was before the call.
C6_ValidationBeforeMutation ==
  (fills = 1 /\ err \in ConfigErrors) => Untouched

\* C7 (as claimed): for each of the seven strategies, Fill on a blob of
\* count 0 fails with EmptyBuffer.
C7_EmptyBufferRejected ==
  (fills = 1 /\ param.type \in SevenNames /\ count(shape) = 0) =>
    err = "EmptyBuffer"

\* C9 (as claimed): after a positive_unitball Fill returns, whatever was
\* drawn, every leading-axis group of dim elements sums to 1 and every
\* element lies in [0, 1].
C9_GroupsSumToOne ==
  (fills = 1 /\ param.type = "positive_unitball" /\ param.sparse = -1
     /\ err = "ok" /\ count(shape) > 0) =>
    LET dim == count(shape) \div shape[1]
    IN /\ \A i \in 0..(shape[1] - 1) : GroupSum(data, i, dim) = Q(1)
       /\ \A e \in 1..count(shape) : RLe(Q(0), data[e]) /\ RLe(data[e], Q(1))

FilledKernel ==
  /\ fills >= 1 /\ err = "ok" /\ param.sparse = -1
  /\ shape[1] >= 1 /\ shape[2] = 1 /\ shape[3] = shape[4] /\ shape[3] >= 1

\* Element (x, y) of channel k of a (K, 1, S, S) blob.
At(k, x, y) == data[k * shape[3] * shape[4] + y * shape[4] + x + 1]

\* f = ceil(S / 2); 2f * c = 2f - 1 - f mod 2; 2f * (1 - |x/f - c|).
CeilHalf(S) == CHOOSE f \in 0..S : 2 * f >= S /\ 2 * (f - 1) < S
TwoFC(f) == 2 * f - 1 - (f % 2)
Weight(x, f) == 2 * f - Abs(2 * x - TwoFC(f))

\* Every element equals (1-|x/f-c|)*(1-|y/f-c|) and lies in [0, 1].
KernelFormula ==
  LET S == shape[3]
      f == CeilHalf(S)
  IN \A k \in 0..(shape[1] - 1) : \A x \in 0..(S - 1) : \A y \in 0..(S - 1) :
       LET d == At(k, x, y)
       IN /\ d[2] > 0
          /\ d[1] * 4 * f * f = Weight(x, f) * Weight(y, f) * d[2]
          /\ 0 <= d[1] /\ d[1] <= d[2]

MirrorSymmetric ==
  LET S == shape[3]
  IN \A k \in 0..(shape[1] - 1) : \A x \in 0..(S - 1) : \A y \in 0..(S - 1) :
       At(k, x, y) = At(k, S - 1 - x, y) /\ At(k, x, y) = At(k, x, S - 1 - y)

PeakIsOne == \E e \in 1..count(shape) : data[e] = Q(1)

\* C8 (as claimed): for every S >= 1 the kernel follows the formula, lies
\* in [0, 1], is mirror-symmetric in x and in y, and has maximum exactly 1.
C8_SymmetricPeakOne ==
  FilledKernel => (KernelFormula /\ MirrorSymmetric /\ PeakIsOne)

\* C8 (amended): for every S >= 1 the kernel follows the formula in every
\* channel, whatever the blob held, and lies in [0, 1]; it is
\* mirror-symmetric exactly when S = 2f - f mod 2, and its maximum is 1
\* exactly when f is odd (otherwise it is ((2f - 1) / (2f))^2).
C8_BilinearKernel ==
  FilledKernel =>
    LET S == shape[3]
        f == CeilHalf(S)
    IN /\ KernelFormula
       /\ MirrorSymmetric <=> (S = 2 * f - (f % 2))
       /\ PeakIsOne <=> (f % 2 = 1)
       /\ (f % 2 = 0) =>
            \E e \in 1..count(shape) :
              /\ data[e] = RNorm(<<(2 * f - 1) * (2 * f - 1), 4 * f * f>>)
              /\ \A e2 \in 1..count(shape) : RLe(data[e2], data[e])

\* C8 witness: a (2, 1, 5, 5) blob filled a second time, over its own output.
C8_Witness ==
  /\ FilledKernel /\ fills = 2
  /\ shape = <<2, 1, 5, 5>>
  /\ At(1, 2, 2) = Q(1) /\ At(1, 0, 0) = <<1, 9>>

(***************************************************************************)
(* Claims about the sparse gaussian filler (checked under SpecFill).       *)
(***************************************************************************)
\* C11 (as claimed): a gaussian Fill with sparse = s >= 0 masks with a
\* probability p = s / shape[0] that lies in [0, 1]; afterwards each element
\* is 0 or its unmasked draw; and the expected number of non-zero entries
\* per output unit, (count / shape[0]) * p, equals s.
C11_SparsityTarget ==
  (fills = 1 /\ param.type = "gaussian" /\ param.sparse >= 0
     /\ Len(shape) >= 1 /\ count(shape) > 0) =>
    LET num_outputs == shape[1]
        p == NonZeroProbability(param, shape)
    IN /\ RLe(Q(0), p) /\ RLe(p, Q(1))
       /\ err = "ok"
       /\ \A e \in 1..count(shape) : data[e] = Q(0) \/ data[e] = drawn[e]
       /\ RMul(Q(count(shape) \div num_outputs), p) = Q(param.sparse)

(***************************************************************************)
(* Claims about the reader run without end (checked under SpecReaderLive). *)
(***************************************************************************)
\* Once set up the reader can always serve another request.
NeverTerminal ==
  [](state = "Loaded" => ENABLED (Forward \/ ForwardOn))

\* A request leaves the reader Loaded and moves the active file, if at
\* all, from i to (i + 1) mod F.
FileOrder ==
  [][ (state = "Loaded" /\ top' # NoTop) =>
        /\ state' = "Loaded"
        /\ \/ file_index' = file_index
           \/ file_index' = (file_index + 1) % Len(file_rows)
    ]_vars

\* Under repeated requests (until SetUp is called again) every file of the
\* list becomes the active file again and again.
EveryFileActive ==
  \A f \in 0..(MaxFiles - 1) :
    [](state = "Loaded" =>
         <>(f >= Len(file_rows) \/ file_index = f \/ iter = 0))

\* SetUp returns the reader to file 0, row 0, and the batch served next is
\* rows [0, batch_size) of the first file.
SetUpRestarts ==
  [][ /\ (state' = "Loaded" /\ iter' = 0) => (file_index' = 0 /\ row_cursor' = 0)
      /\ (state = "Loaded" /\ iter = 0 /\ iter' = 1) =>
           /\ src'.file = 0 /\ src'.start = 0
           /\ \A i \in 1..batch_size :
                /\ top'.data[i] = DataRow(0, i - 1)
                /\ top'.label[i] = LabelRow(0, i - 1)
                /\ top'.label2[i] = Label2Row(0, i - 1)
    ]_vars

\* C12 (as claimed): after SetUp the reader has no terminal state, every
\* request leaves it Loaded with another request enabled, the active file
\* changes only from i to (i + 1) mod F, every file becomes active again and
\* again under repeated requests, and SetUp called again restarts at rows
\* [0, batch_size) of the first file.
C12_CyclicForever ==
  NeverTerminal /\ FileOrder /\ EveryFileActive /\ SetUpRestarts

====
